---- MODULE Spec2Model ----
(***************************************************************************)
(* A model of src/event-tracker.js: the event capture pipeline of the      *)
(* "universal event tracker".  The program is a set of DOM listeners and   *)
(* timer callbacks that run to completion one at a time on the page's      *)
(* single event loop; each of them is one action here.                     *)
(*                                                                         *)
(* Time is the value of Date.now() in milliseconds.  The host moves the    *)
(* clock (Tick); a timer callback runs when the clock has reached the      *)
(* timer's deadline, and the clock does not pass a deadline before the     *)
(* callback has run.                                                       *)
(*                                                                         *)
(* Not modelled: State.mouseTrail and State.timeOnPage (written or         *)
(* initialised, never read), the console styling,                          *)
(* EventTracker.updateConfig (CONFIG keeps the values of lines 10-20), and *)
(* the listeners of focus, blur, submit, mouseenter, mouseleave, the media *)
(* events, selectionchange, dragend and drop, which log like the ones      *)
(* modelled.                                                               *)
(***************************************************************************)
EXTENDS Integers, Sequences, FiniteSets

(***************************************************************************)
(* CONFIG, lines 10-20.                                                    *)
(***************************************************************************)
scrollThrottle == 300

mouseMoveThrottle == 500

resizeThrottle == 500

idleTimeout == 30000

\* visibilityThreshold 0.5, as a percentage
visibilityThreshold == 50

\* the delay of the setTimeout that registers the observed elements
observeDelay == 1000

(***************************************************************************)
(* Bounds of the model.                                                    *)
(***************************************************************************)
\* Date.now() when the script runs (any value far above the throttles)
SessionStart == 100000

\* the clock stops at SessionStart + MaxElapsed
MaxElapsed == 61000

\* the host delivers at most MaxSignals signals
MaxSignals == 3

\* the host moves the clock between two timer deadlines at most MaxTicks times
MaxTicks == 2

\* the clock steps the host may take between signals, in ms
TickSteps == {100, 500}

(***************************************************************************)
(* The host's nodes.  Elements are nodes with a tagName; a Text node and   *)
(* the Document have none.  Null is JavaScript's null.                     *)
(***************************************************************************)
Elements == {"e1", "e2"}

Body == "body"

TextNode == "#text"

Document == "#document"

Null == "null"

\* two form fields: <input type="password"> and <input type="text">
PasswordInput == "input:password"

TextInput == "input:text"

Inputs == {PasswordInput, TextInput}

HasTagName(node) == node \in Elements \cup Inputs \cup {Body}

\* element.type of a form field
InputType(node) == IF node = PasswordInput THEN "password" ELSE "text"

\* getElementType, lines 47-96, on a form field: the inputTypes table of
\* lines 68-85 and its default
getElementType(node) ==
    IF InputType(node) = "password" THEN "password_input" ELSE "text_input"

\* the texts a form field can hold
Values == {"hunter2", "***", ""}

\* the characters of a text, in order
Chars(text) ==
    CASE text = "hunter2" -> <<"h", "u", "n", "t", "e", "r", "2">>
      [] text = "***"     -> <<"*", "*", "*">>
      [] text = ""        -> <<>>

\* String.prototype.substring(from, to) for 0 <= from <= to
Substring(text, from, to) ==
    LET chars == Chars(text)
        end   == IF to < Len(chars) THEN to ELSE Len(chars)
    IN  SubSeq(chars, from + 1, end)

\* the keys of a key signal (KeyboardEvent.key): one that types a character
\* and one that types none
Keys == {"h", "Tab"}

\* KeyboardEvent.code, the physical key that produces the key
KeyCode(key) == IF key = "h" THEN "KeyH" ELSE key

\* the pointer coordinates of a signal
Coords == {1, 2}

(***************************************************************************)
(* The page geometry the host reports: <<scrollTop, scrollHeight,          *)
(* innerHeight>>.  window.innerHeight includes a horizontal scrollbar,     *)
(* the scrollable range (scrollHeight - documentElement.clientHeight) does *)
(* not, so scrollTop can exceed scrollHeight - innerHeight.                *)
(***************************************************************************)
Geometries ==
    { <<0, 1000, 500>>, <<250, 1000, 500>>, <<15, 1000, 1000>>, <<100, 600, 515>> }

VARIABLES
    now,              \* Date.now()
    ticks,            \* clock steps taken so far (bounded by MaxTicks)
    State,            \* the STATE object of lines 23-33
    sink,             \* the records handed to the console, in order
    idleTimer,        \* the pending idle timeout: {} or {deadline}
    scrollTimeout,    \* the pending scroll timeout: {} or {deadline}
    resizeTimeout,    \* the pending resize timeout: {} or {deadline}
    observeTimer,     \* the pending registration timeout: {} or {deadline}
    observing,        \* the elements the IntersectionObserver observes
    lastMouseLog,     \* the mousemove listener's lastMouseLog
    geometry,         \* the host's <<scrollTop, scrollHeight, innerHeight>>
    loaded,           \* the load event has fired
    quiet,            \* history: the time of the last call of resetIdleTimer and the
                      \* number of records handed over when its listeners had run
    moves,            \* history: the last two mousemove signals, each with the number
                      \* of records and the value of lastMouseLog when it arrived
    intersections,    \* history: per element, the entries delivered with isIntersecting
    stats,            \* the last result of getStats
    signals,          \* signals the host has delivered so far (bounded by MaxSignals)
    arrivals          \* history: the signals the host has delivered to the
                      \* listeners and to logCustomEvent, in arrival order, each
                      \* with its kind, its time and the number of records handed
                      \* over before and after its listeners ran

vars == <<now, ticks, State, sink, idleTimer, scrollTimeout, resizeTimeout,
          observeTimer, observing, lastMouseLog, geometry, loaded,
          quiet, moves, intersections, stats, signals, arrivals>>

(***************************************************************************)
(* JavaScript numbers.  The model's numbers are integers; Infinity stands  *)
(* for the IEEE infinity that a division by zero yields (line 161), above  *)
(* every finite value of the model.  NaN only occurs inside                *)
(* getScrollInfo, where "|| 0" replaces it.                                *)
(***************************************************************************)
Infinity == 1000000000

\* Math.round(n / d) for d # 0: the nearest integer, halves rounded up
MathRound(n, d) ==
    IF d > 0 THEN (2 * n + d) \div (2 * d)
             ELSE (2 * (0 - n) + (0 - d)) \div (2 * (0 - d))

(***************************************************************************)
(* getScrollInfo, lines 157-170, on the geometry g.  The quotients of the  *)
(* model's geometries are exact in floating point, so the integer          *)
(* arithmetic agrees with the code's.                                      *)
(***************************************************************************)
ScrollPercentage(scrollTop, scrollHeight, clientHeight) ==
    LET den == scrollHeight - clientHeight
    IN  IF den = 0
        THEN IF scrollTop > 0 THEN Infinity               \* x / 0
             ELSE IF scrollTop < 0 THEN 0 - Infinity      \* -x / 0
             ELSE 0                                       \* 0 / 0 is NaN; NaN || 0
        ELSE MathRound(100 * scrollTop, den)              \* 0 || 0 and -0 || 0 are 0

getScrollInfo(g) ==
    [ scroll_y          |-> g[1],
      scroll_percentage |-> ScrollPercentage(g[1], g[2], g[3]),
      scroll_height     |-> g[2],
      viewport_height   |-> g[3] ]

(***************************************************************************)
(* The part of the program a listener changes through logEvent and         *)
(* resetIdleTimer, as one value, so that a listener's calls compose.       *)
(***************************************************************************)
Machine == [State |-> State, sink |-> sink, idleTimer |-> idleTimer]

NoInfo == [none |-> TRUE]

\* getStats has not been called
NoStats == [none |-> TRUE]

(***************************************************************************)
(* logEvent, lines 176-236.  Lines 177-179 update State; line 188 reads    *)
(* element.tagName.toLowerCase() whenever element is not null, which       *)
(* throws a TypeError for a node without tagName: the listener ends there  *)
(* and nothing reaches the console.  Otherwise line 232 hands logData to   *)
(* the console.                                                            *)
(***************************************************************************)
\* (logEvent without line 179)
logEventKeepsIdle(m, eventType, eventObject, element, additionalInfo) ==
    LET st == [m.State EXCEPT !.eventCount = @ + 1,
                              !.lastActivity = now]
        logData == [ event_number  |-> st.eventCount,
                     time          |-> now,
                     type_of_event |-> eventType,
                     event_object  |-> eventObject,
                     element       |-> element,
                     session_info  |-> [ total_events     |-> st.eventCount,
                                         max_scroll_depth |-> st.maxScrollDepth ],
                     info          |-> additionalInfo ]
    IN  IF element # Null /\ ~HasTagName(element)
        THEN [m EXCEPT !.State = st]
        ELSE [m EXCEPT !.State = st, !.sink = Append(@, logData)]

logEvent(m, eventType, eventObject, element, additionalInfo) ==
    LET st == [m.State EXCEPT !.eventCount = @ + 1,
                              !.lastActivity = now,
                              !.isIdle = FALSE]
        logData == [ event_number  |-> st.eventCount,
                     time          |-> now,
                     type_of_event |-> eventType,
                     event_object  |-> eventObject,
                     element       |-> element,
                     session_info  |-> [ total_events     |-> st.eventCount,
                                         max_scroll_depth |-> st.maxScrollDepth ],
                     info          |-> additionalInfo ]
    IN  IF element # Null /\ ~HasTagName(element)
        THEN [m EXCEPT !.State = st]
        ELSE [m EXCEPT !.State = st, !.sink = Append(@, logData)]

(***************************************************************************)
(* resetIdleTimer, lines 573-589.  The argument of logEvent (line 578) is  *)
(* evaluated before logEvent overwrites lastActivity.                      *)
(***************************************************************************)
resetIdleTimer(m) ==
    LET m1 == IF m.State.isIdle
              THEN logEvent([m EXCEPT !.State.isIdle = FALSE],
                            "user_active", "session", Body,
                            [idle_duration_ms |-> now - m.State.lastActivity])
              ELSE m
    IN  [m1 EXCEPT !.idleTimer = {now + idleTimeout}]

\* the listener's result becomes the next state
Commit(m) ==
    /\ State' = m.State
    /\ sink' = m.sink
    /\ idleTimer' = m.idleTimer

(***************************************************************************)
(* The state after the script has run: State (lines 23-33), no scroll or   *)
(* resize timeout, the registration timeout of line 562 and the idle       *)
(* timeout armed by the call of resetIdleTimer at line 595.                *)
(***************************************************************************)
InitState ==
    [ eventCount       |-> 0,
      lastActivity     |-> SessionStart,
      observedElements |-> {},
      scrollDepth      |-> 0,
      maxScrollDepth   |-> 0,
      isIdle           |-> FALSE ]

Init ==
    /\ now = SessionStart
    /\ ticks = 0
    /\ State = InitState
    /\ sink = <<>>
    /\ idleTimer = {SessionStart + idleTimeout}
    /\ scrollTimeout = {}
    /\ resizeTimeout = {}
    /\ observeTimer = {SessionStart + observeDelay}
    /\ observing = {}
    /\ lastMouseLog = 0
    /\ geometry = <<0, 1000, 500>>
    /\ loaded = FALSE
    /\ quiet = [since |-> SessionStart, emitted |-> 0]
    /\ moves = <<>>
    /\ intersections = [el \in Elements |-> 0]
    /\ stats = NoStats
    /\ signals = 0
    /\ arrivals = <<>>

\* the host delivers one more signal
Signal ==
    /\ signals < MaxSignals
    /\ signals' = signals + 1

\* the signal is of the given kind; detail is what the host says about its
\* target (the text of a form field), "" when the model does not look at it
Arrive(kind, detail) ==
    arrivals' = Append(arrivals, [ kind   |-> kind,
                                   time   |-> now,
                                   detail |-> detail,
                                   before |-> Len(sink),
                                   after  |-> Len(sink') ])

(***************************************************************************)
(* The clock.                                                              *)
(***************************************************************************)
Deadlines == idleTimer \cup scrollTimeout \cup resizeTimeout \cup observeTimer

\* the host lets d ms pass; no timer is overdue afterwards
Tick(d) ==
    /\ ticks < MaxTicks
    /\ now + d <= SessionStart + MaxElapsed
    /\ \A t \in Deadlines : now + d <= t
    /\ now' = now + d
    /\ ticks' = ticks + 1
    /\ UNCHANGED <<State, sink, idleTimer, scrollTimeout, resizeTimeout,
                   observeTimer, observing, lastMouseLog, geometry, loaded,
                   quiet, moves, intersections, stats, signals, arrivals>>

\* nothing happens until the next timer is due
Sleep ==
    /\ Deadlines # {}
    /\ \A t \in Deadlines : now < t
    /\ \E t \in Deadlines :
         /\ \A u \in Deadlines : t <= u
         /\ t <= SessionStart + MaxElapsed
         /\ now' = t
    /\ UNCHANGED <<ticks, State, sink, idleTimer, scrollTimeout, resizeTimeout,
                   observeTimer, observing, lastMouseLog, geometry, loaded,
                   quiet, moves, intersections, stats, signals, arrivals>>

(***************************************************************************)
(* The listeners.  A signal of one of the six kinds of line 591 also runs  *)
(* resetIdleTimer, a capturing listener on the document: after the click   *)
(* listener (capturing, registered earlier), before the mousemove listener *)
(* (not capturing) and before the scroll listener of the window.  An       *)
(* exception in one listener does not keep the next one from running.      *)
(***************************************************************************)

\* the load listener, lines 243-245
Load ==
    /\ Signal
    /\ ~loaded
    /\ loaded' = TRUE
    /\ Commit(logEvent(Machine, "page_view", "page", Body, NoInfo))
    /\ UNCHANGED <<now, ticks, scrollTimeout, resizeTimeout, observeTimer,
                   observing, lastMouseLog, geometry, quiet, moves,
                   intersections, stats>>
    /\ Arrive("load", "")

\* the click listener, lines 248-267, then resetIdleTimer
Click(target) ==
    /\ Signal
    /\ Commit(resetIdleTimer(
           logEvent(Machine, "click", "element", target, NoInfo)))
    /\ quiet' = [since |-> now, emitted |-> Len(sink')]
    /\ UNCHANGED <<now, ticks, scrollTimeout, resizeTimeout, observeTimer,
                   observing, lastMouseLog, geometry, loaded, moves, intersections, stats>>
    /\ Arrive("click", "")

\* mousedown, keypress, touchstart, or the scroll of an inner element:
\* no listener but resetIdleTimer, lines 591-593
IdleOnlySignal ==
    /\ Signal
    /\ Commit(resetIdleTimer(Machine))
    /\ quiet' = [since |-> now, emitted |-> Len(sink')]
    /\ UNCHANGED <<now, ticks, scrollTimeout, resizeTimeout, observeTimer,
                   observing, lastMouseLog, geometry, loaded, moves, intersections, stats>>
    /\ Arrive("mousedown", "")

\* the keydown listener, lines 349-360, for the key the host reports
\* (key_code, the modifiers and repeat are left out)
KeyDown(target, key) ==
    /\ Signal
    /\ Commit(logEvent(Machine, "keyboard", "keydown", target,
                       [key |-> key, code |-> KeyCode(key)]))
    /\ UNCHANGED <<now, ticks, scrollTimeout, resizeTimeout, observeTimer,
                   observing, lastMouseLog, geometry, loaded, quiet,
                   moves, intersections, stats>>
    /\ Arrive("keydown", key)

\* the dragstart listener, lines 531-533; the drag of a text selection
\* starts at a Text node
DragStart(target) ==
    /\ Signal
    /\ Commit(logEvent(Machine, "drag_start",
                       IF HasTagName(target) THEN "element" ELSE "unknown",
                       target, NoInfo))
    /\ UNCHANGED <<now, ticks, scrollTimeout, resizeTimeout, observeTimer,
                   observing, lastMouseLog, geometry, loaded, quiet,
                   moves, intersections, stats>>
    /\ Arrive("dragstart", "")

\* EventTracker.logCustomEvent, lines 613-615: the caller chooses the name
\* and the subject of the record
LogCustomEvent(eventName, eventObject, activeElement) ==
    /\ Signal
    /\ Commit(logEvent(Machine, eventName, eventObject, activeElement, NoInfo))
    /\ UNCHANGED <<now, ticks, scrollTimeout, resizeTimeout, observeTimer,
                   observing, lastMouseLog, geometry, loaded, quiet,
                   moves, intersections, stats>>
    /\ Arrive("logCustomEvent", eventName)

\* (the value logged for every type of field)
ChangeLogsValue(target, value) ==
    /\ Signal
    /\ Commit(logEvent(Machine, "change", getElementType(target), target,
                       [value |-> value, checked |-> FALSE]))
    /\ UNCHANGED <<now, ticks, scrollTimeout, resizeTimeout, observeTimer,
                   observing, lastMouseLog, geometry, loaded, quiet,
                   moves, intersections, stats>>
    /\ Arrive("change", value)

\* the change listener, lines 290-301, for a form field that holds value
\* (selected_index and selected_options are undefined for an input)
Change(target, value) ==
    /\ Signal
    /\ Commit(logEvent(Machine, "change", getElementType(target), target,
                       [ value   |-> IF InputType(target) = "password"
                                     THEN "***" ELSE value,
                         checked |-> FALSE ]))
    /\ UNCHANGED <<now, ticks, scrollTimeout, resizeTimeout, observeTimer,
                   observing, lastMouseLog, geometry, loaded, quiet,
                   moves, intersections, stats>>
    /\ Arrive("change", value)

\* the input listener, lines 304-312, for a form field that holds value
\* after the edit (e.inputType is "insertText" for typed text)
Input(target, value) ==
    /\ Signal
    /\ Commit(logEvent(Machine, "input", getElementType(target), target,
                       [ value_length |-> IF value # "" THEN Len(value) ELSE 0,
                         input_type   |-> "insertText" ]))
    /\ UNCHANGED <<now, ticks, scrollTimeout, resizeTimeout, observeTimer,
                   observing, lastMouseLog, geometry, loaded, quiet,
                   moves, intersections, stats>>
    /\ Arrive("input", value)

\* the copy and cut listeners, lines 429-443.  selection is what
\* window.getSelection().toString() returns: for a selection inside a form
\* field the engines differ (the selected text of the field, or the empty
\* string), so both occur.
ClipboardListeners == {"copy", "cut"}

ClipboardListener(l, target, selection) ==
    /\ Signal
    /\ Commit(logEvent(Machine, l, "text", target,
                       [ text_length  |-> Len(selection),
                         text_preview |-> Substring(selection, 0, 50) ]))
    /\ UNCHANGED <<now, ticks, scrollTimeout, resizeTimeout, observeTimer,
                   observing, lastMouseLog, geometry, loaded, quiet,
                   moves, intersections, stats>>
    /\ Arrive(l, selection)

\* the paste listener, lines 445-449
Paste(target) ==
    /\ Signal
    /\ Commit(logEvent(Machine, "paste", "text", target,
                       [element_type |-> getElementType(target)]))
    /\ UNCHANGED <<now, ticks, scrollTimeout, resizeTimeout, observeTimer,
                   observing, lastMouseLog, geometry, loaded, quiet,
                   moves, intersections, stats>>
    /\ Arrive("paste", "")

\* the dblclick and contextmenu listeners, lines 270-287
PointerListeners == {<<"dblclick", "double_click">>, <<"contextmenu", "right_click">>}

PointerListener(l, target) ==
    /\ Signal
    /\ Commit(logEvent(Machine, l[2], "element", target, NoInfo))
    /\ UNCHANGED <<now, ticks, scrollTimeout, resizeTimeout, observeTimer,
                   observing, lastMouseLog, geometry, loaded, quiet,
                   moves, intersections, stats>>
    /\ Arrive(l[1], "")

\* the visibilitychange and beforeunload listeners, lines 468-473 and 485-491
PageListeners ==
    {<<"visibilitychange", "visibility_change">>, <<"beforeunload", "page_exit">>}

PageListener(l) ==
    /\ Signal
    /\ Commit(logEvent(Machine, l[2], "page", Body, NoInfo))
    /\ UNCHANGED <<now, ticks, scrollTimeout, resizeTimeout, observeTimer,
                   observing, lastMouseLog, geometry, loaded, quiet,
                   moves, intersections, stats>>
    /\ Arrive(l[1], "")

\* (the arguments of logEvent in the wrong order)
KeyUpSwapped(target, key) ==
    /\ Signal
    /\ Commit(logEvent(Machine, "keyup", "keyboard", target,
                       [key |-> key, code |-> KeyCode(key)]))
    /\ UNCHANGED <<now, ticks, scrollTimeout, resizeTimeout, observeTimer,
                   observing, lastMouseLog, geometry, loaded, quiet,
                   moves, intersections, stats>>
    /\ Arrive("keyup", key)

\* the keyup listener, lines 362-367
KeyUp(target, key) ==
    /\ Signal
    /\ Commit(logEvent(Machine, "keyboard", "keyup", target,
                       [key |-> key, code |-> KeyCode(key)]))
    /\ UNCHANGED <<now, ticks, scrollTimeout, resizeTimeout, observeTimer,
                   observing, lastMouseLog, geometry, loaded, quiet,
                   moves, intersections, stats>>
    /\ Arrive("keyup", key)

\* the online and offline listeners, lines 476-482
Online ==
    /\ Signal
    /\ Commit(logEvent(Machine, "connection", "online", Body, NoInfo))
    /\ UNCHANGED <<now, ticks, scrollTimeout, resizeTimeout, observeTimer,
                   observing, lastMouseLog, geometry, loaded, quiet,
                   moves, intersections, stats>>
    /\ Arrive("online", "")

Offline ==
    /\ Signal
    /\ Commit(logEvent(Machine, "connection", "offline", Body, NoInfo))
    /\ UNCHANGED <<now, ticks, scrollTimeout, resizeTimeout, observeTimer,
                   observing, lastMouseLog, geometry, loaded, quiet,
                   moves, intersections, stats>>
    /\ Arrive("offline", "")

(***************************************************************************)
(* The mousemove listener, lines 391-405, after resetIdleTimer.            *)
(***************************************************************************)
\* (the throttle interval left out of the comparison)
MouseMovePassesUnthrottled == now - lastMouseLog > 0

MouseMovePasses == now - lastMouseLog > mouseMoveThrottle

\* (the idle timer reset only by the signals the throttle lets through)
MouseMoveResetsWhenLogged(target, x) ==
    /\ Signal
    /\ IF MouseMovePasses
       THEN /\ lastMouseLog' = now
            /\ Commit(logEvent(resetIdleTimer(Machine), "mouse_move", "cursor",
                               target, [coordinates |-> x]))
       ELSE /\ lastMouseLog' = lastMouseLog
            /\ Commit(Machine)
    /\ quiet' = [since |-> now, emitted |-> Len(sink')]
    /\ LET move == [ time |-> now, x |-> x, target |-> target,
                     before |-> Len(sink), lastLog |-> lastMouseLog ]
       IN  moves' = IF Len(moves) < 2 THEN Append(moves, move)
                                      ELSE <<moves[2], move>>
    /\ UNCHANGED <<now, ticks, scrollTimeout, resizeTimeout, observeTimer,
                   observing, geometry, loaded, intersections, stats>>
    /\ Arrive("mousemove", "")

MouseMove(target, x) ==
    /\ Signal
    /\ LET m == resetIdleTimer(Machine)
       IN  IF MouseMovePasses
           THEN /\ lastMouseLog' = now
                /\ Commit(logEvent(m, "mouse_move", "cursor", target,
                                   [coordinates |-> x]))
           ELSE /\ lastMouseLog' = lastMouseLog
                /\ Commit(m)
    /\ quiet' = [since |-> now, emitted |-> Len(sink')]
    /\ LET move == [ time |-> now, x |-> x, target |-> target,
                     before |-> Len(sink), lastLog |-> lastMouseLog ]
       IN  moves' = IF Len(moves) < 2 THEN Append(moves, move)
                                      ELSE <<moves[2], move>>
    /\ UNCHANGED <<now, ticks, scrollTimeout, resizeTimeout, observeTimer,
                   observing, geometry, loaded, intersections, stats>>
    /\ Arrive("mousemove", "")

(***************************************************************************)
(* Scroll, lines 371-384: the listener restarts scrollTimeout (after       *)
(* resetIdleTimer); the timeout's callback reads the geometry and logs.    *)
(***************************************************************************)
\* (the record written when the signal arrives, with no timeout)
ScrollLogsAtOnce(g) ==
    /\ Signal
    /\ geometry' = g
    /\ LET scrollInfo == getScrollInfo(g)
           m  == resetIdleTimer(Machine)
           st == [m.State EXCEPT !.scrollDepth = scrollInfo.scroll_percentage,
                                 !.maxScrollDepth =
                                     IF scrollInfo.scroll_percentage > @
                                     THEN scrollInfo.scroll_percentage ELSE @]
       IN  Commit(logEvent([m EXCEPT !.State = st],
                           "scroll", "page", Body, scrollInfo))
    /\ quiet' = [since |-> now, emitted |-> Len(sink')]
    /\ scrollTimeout' = scrollTimeout
    /\ UNCHANGED <<now, ticks, resizeTimeout, observeTimer, observing,
                   lastMouseLog, loaded, moves, intersections, stats>>
    /\ Arrive("scroll", "")

\* (a pending timeout is left to run instead of being restarted)
ScrollKeepsTimeout(g) ==
    /\ Signal
    /\ geometry' = g
    /\ Commit(resetIdleTimer(Machine))
    /\ quiet' = [since |-> now, emitted |-> Len(sink')]
    /\ scrollTimeout' = IF scrollTimeout = {} THEN {now + scrollThrottle}
                                              ELSE scrollTimeout
    /\ UNCHANGED <<now, ticks, resizeTimeout, observeTimer, observing,
                   lastMouseLog, loaded, moves, intersections, stats>>
    /\ Arrive("scroll", "")

Scroll(g) ==
    /\ Signal
    /\ geometry' = g
    /\ Commit(resetIdleTimer(Machine))
    /\ quiet' = [since |-> now, emitted |-> Len(sink')]
    /\ scrollTimeout' = {now + scrollThrottle}
    /\ UNCHANGED <<now, ticks, resizeTimeout, observeTimer, observing,
                   lastMouseLog, loaded, moves, intersections, stats>>
    /\ Arrive("scroll", "")

\* (the record written before the maximum is updated)
ScrollTimeoutLogsFirst ==
    /\ \E t \in scrollTimeout : t <= now
    /\ scrollTimeout' = {}
    /\ LET scrollInfo == getScrollInfo(geometry)
           m   == logEvent(Machine, "scroll", "page", Body, scrollInfo)
           st1 == [m.State EXCEPT !.scrollDepth = scrollInfo.scroll_percentage]
           st2 == IF scrollInfo.scroll_percentage > st1.maxScrollDepth
                  THEN [st1 EXCEPT !.maxScrollDepth = scrollInfo.scroll_percentage]
                  ELSE st1
       IN  Commit([m EXCEPT !.State = st2])
    /\ UNCHANGED <<now, ticks, resizeTimeout, observeTimer, observing,
                   lastMouseLog, geometry, loaded, quiet, moves,
                   intersections, stats, signals, arrivals>>

ScrollTimeoutFires ==
    /\ \E t \in scrollTimeout : t <= now
    /\ scrollTimeout' = {}
    /\ LET scrollInfo == getScrollInfo(geometry)
           st1 == [State EXCEPT !.scrollDepth = scrollInfo.scroll_percentage]
           st2 == IF scrollInfo.scroll_percentage > st1.maxScrollDepth
                  THEN [st1 EXCEPT !.maxScrollDepth = scrollInfo.scroll_percentage]
                  ELSE st1
       IN  Commit(logEvent([Machine EXCEPT !.State = st2],
                           "scroll", "page", Body, scrollInfo))
    /\ UNCHANGED <<now, ticks, resizeTimeout, observeTimer, observing,
                   lastMouseLog, geometry, loaded, quiet, moves,
                   intersections, stats, signals, arrivals>>

(***************************************************************************)
(* Resize, lines 453-465.                                                  *)
(***************************************************************************)
\* (one timeout variable shared by the scroll and the resize listener)
ResizeSharesTimeout(g) ==
    /\ Signal
    /\ geometry' = g
    /\ scrollTimeout' = {}
    /\ resizeTimeout' = {now + resizeThrottle}
    /\ UNCHANGED <<now, ticks, State, sink, idleTimer,
                   observeTimer, observing, lastMouseLog, loaded,
                   quiet, moves, intersections, stats>>
    /\ Arrive("resize", "")

Resize(g) ==
    /\ Signal
    /\ geometry' = g
    /\ resizeTimeout' = {now + resizeThrottle}
    /\ UNCHANGED <<now, ticks, State, sink, idleTimer, scrollTimeout,
                   observeTimer, observing, lastMouseLog, loaded,
                   quiet, moves, intersections, stats>>
    /\ Arrive("resize", "")

ResizeTimeoutFires ==
    /\ \E t \in resizeTimeout : t <= now
    /\ resizeTimeout' = {}
    /\ Commit(logEvent(Machine, "resize", "window", Body,
                       [viewport_height |-> geometry[3]]))
    /\ UNCHANGED <<now, ticks, scrollTimeout, observeTimer, observing,
                   lastMouseLog, geometry, loaded, quiet, moves,
                   intersections, stats, signals, arrivals>>

(***************************************************************************)
(* The callback of the idle timeout, lines 582-588.                        *)
(***************************************************************************)
\* (a timer that keeps firing, as setInterval would)
IdleTimeoutRepeats ==
    /\ \E t \in idleTimer : t <= now
    /\ LET m == logEvent([Machine EXCEPT !.State.isIdle = TRUE],
                         "user_idle", "session", Body,
                         [ idle_timeout_ms |-> idleTimeout,
                           last_activity   |-> State.lastActivity ])
       IN  Commit([m EXCEPT !.idleTimer = {now + idleTimeout}])
    /\ UNCHANGED <<now, ticks, scrollTimeout, resizeTimeout, observeTimer,
                   observing, lastMouseLog, geometry, loaded, quiet,
                   moves, intersections, stats, signals, arrivals>>

\* (the flag set after the record is handed over)
IdleTimeoutMarksLast ==
    /\ \E t \in idleTimer : t <= now
    /\ LET m == logEvent(Machine, "user_idle", "session", Body,
                         [ idle_timeout_ms |-> idleTimeout,
                           last_activity   |-> State.lastActivity ])
       IN  Commit([m EXCEPT !.State.isIdle = TRUE, !.idleTimer = {}])
    /\ UNCHANGED <<now, ticks, scrollTimeout, resizeTimeout, observeTimer,
                   observing, lastMouseLog, geometry, loaded, quiet,
                   moves, intersections, stats, signals, arrivals>>

IdleTimeoutFires ==
    /\ \E t \in idleTimer : t <= now
    /\ LET m == logEvent([Machine EXCEPT !.State.isIdle = TRUE],
                         "user_idle", "session", Body,
                         [ idle_timeout_ms |-> idleTimeout,
                           last_activity   |-> State.lastActivity ])
       IN  Commit([m EXCEPT !.idleTimer = {}])
    /\ UNCHANGED <<now, ticks, scrollTimeout, resizeTimeout, observeTimer,
                   observing, lastMouseLog, geometry, loaded, quiet,
                   moves, intersections, stats, signals, arrivals>>

(***************************************************************************)
(* Visibility tracking, lines 547-569.  ObserveTimeoutFires is the         *)
(* callback of line 562; IntersectionCallback is the observer's callback   *)
(* for one entry (entries.forEach handles one entry after the other).      *)
(* An entry's isIntersecting is true whenever its ratio reaches the        *)
(* observer's threshold; below the threshold the engines differ (true for  *)
(* any overlap by the Intersection Observer algorithm, false in engines    *)
(* that derive it from the threshold), so both occur.                      *)
(***************************************************************************)
Ratios == {0, 20, 50, 100}

Entries ==
    { e \in [target : Elements, intersectionRatio : Ratios, isIntersecting : BOOLEAN] :
        /\ e.intersectionRatio >= visibilityThreshold => e.isIntersecting
        /\ e.intersectionRatio = 0 => ~e.isIntersecting }

ObserveTimeoutFires ==
    /\ \E t \in observeTimer : t <= now
    /\ observeTimer' = {}
    /\ observing' = Elements
    /\ UNCHANGED <<now, ticks, State, sink, idleTimer, scrollTimeout,
                   resizeTimeout, lastMouseLog, geometry, loaded,
                   quiet, moves, intersections, stats, signals, arrivals>>

\* (the callback without the test of observedElements)
IntersectionCallbackRepeats(entry) ==
    /\ Signal
    /\ entry.target \in observing
    /\ intersections' = [intersections EXCEPT ![entry.target] =
                              IF entry.isIntersecting THEN @ + 1 ELSE @]
    /\ IF entry.isIntersecting
       THEN Commit(logEvent(
                [Machine EXCEPT !.State.observedElements = @ \cup {entry.target}],
                "view", "element", entry.target,
                [visibility_ratio |-> entry.intersectionRatio]))
       ELSE UNCHANGED <<State, sink, idleTimer>>
    /\ UNCHANGED <<now, ticks, scrollTimeout, resizeTimeout, observeTimer,
                   observing, lastMouseLog, geometry, loaded, quiet,
                   moves, stats, arrivals>>

IntersectionCallback(entry) ==
    /\ Signal
    /\ entry.target \in observing
    /\ intersections' = [intersections EXCEPT ![entry.target] =
                              IF entry.isIntersecting THEN @ + 1 ELSE @]
    /\ IF entry.isIntersecting /\ entry.target \notin State.observedElements
       THEN Commit(logEvent(
                [Machine EXCEPT !.State.observedElements = @ \cup {entry.target}],
                "view", "element", entry.target,
                [visibility_ratio |-> entry.intersectionRatio]))
       ELSE UNCHANGED <<State, sink, idleTimer>>
    /\ UNCHANGED <<now, ticks, scrollTimeout, resizeTimeout, observeTimer,
                   observing, lastMouseLog, geometry, loaded, quiet,
                   moves, stats, arrivals>>

(***************************************************************************)
(* EventTracker.getStats, lines 602-611: changes nothing and returns a     *)
(* snapshot, kept in stats.                                                *)
(***************************************************************************)
GetStats ==
    /\ stats' = [ total_events     |-> State.eventCount,
                  max_scroll_depth |-> State.maxScrollDepth,
                  current_scroll   |-> getScrollInfo(geometry).scroll_percentage,
                  is_idle          |-> State.isIdle,
                  last_activity    |-> State.lastActivity ]
    /\ UNCHANGED <<now, ticks, State, sink, idleTimer, scrollTimeout,
                   resizeTimeout, observeTimer, observing, lastMouseLog,
                   geometry, loaded, quiet, moves, intersections, signals, arrivals>>

(***************************************************************************)
(* The steps of the program, by the part of the host that causes them.     *)
(***************************************************************************)
ClockStep ==
    \/ \E d \in TickSteps : Tick(d)
    \/ Sleep

\* the timeouts armed when the script runs
StartupTimeoutStep ==
    \/ IdleTimeoutFires
    \/ ObserveTimeoutFires

PageStep ==
    \/ Load
    \/ \E target \in {Body, "e1"} : KeyDown(target, "Tab")
    \/ \E target \in {"e1", TextNode} : DragStart(target)
    \/ \E activeElement \in {Body, Null} :
          LogCustomEvent("custom_event", "custom", activeElement)

PointerStep ==
    \/ \E target \in {"e1"} : Click(target)
    \/ IdleOnlySignal

MouseMoveStep ==
    \E target \in {"e1", Document}, x \in Coords : MouseMove(target, x)

ScrollStep ==
    \/ \E g \in Geometries : Scroll(g)
    \/ ScrollTimeoutFires
    \/ \E g \in Geometries : Resize(g)
    \/ ResizeTimeoutFires

ViewStep ==
    \E entry \in Entries : IntersectionCallback(entry)

\* every step the program can take
Next ==
    \/ ClockStep
    \/ StartupTimeoutStep
    \/ PageStep
    \/ PointerStep
    \/ MouseMoveStep
    \/ ScrollStep
    \/ ViewStep
    \/ GetStats

Spec == Init /\ [][Next]_vars

(***************************************************************************)
(* The program under a host that sends the signals of one concern only.    *)
(* TLC explores these; each keeps the clock and the two timeouts of the    *)
(* start-up, and all but the mouse-move one a listener that only logs      *)
(* (keydown): lastMouseLog is local to the mousemove listener (line 389),  *)
(* which no other listener can reach.                                      *)
(***************************************************************************)
NextSignals ==
    \/ Sleep
    \/ StartupTimeoutStep
    \/ PageStep
    \/ PointerStep

SpecSignals == Init /\ [][NextSignals]_vars

NextIdle ==
    \/ ClockStep
    \/ StartupTimeoutStep
    \/ PointerStep
    \/ KeyDown(Body, "Tab")

SpecIdle == Init /\ [][NextIdle]_vars

NextMouse ==
    \/ ClockStep
    \/ StartupTimeoutStep
    \/ MouseMoveStep

SpecMouse == Init /\ [][NextMouse]_vars

NextScroll ==
    \/ ClockStep
    \/ StartupTimeoutStep
    \/ ScrollStep
    \/ KeyDown(Body, "Tab")

SpecScroll == Init /\ [][NextScroll]_vars

NextView ==
    \/ ClockStep
    \/ StartupTimeoutStep
    \/ ViewStep
    \/ KeyDown(Body, "Tab")

SpecView == Init /\ [][NextView]_vars

(***************************************************************************)
(* The key and connectivity signals and the events a caller injects        *)
(* through logCustomEvent, under names of its choice.                      *)
(***************************************************************************)
CustomNames == {"custom", "purchase"}

KindStep ==
    \/ KeyDown(Body, "Tab")
    \/ KeyUp(Body, "Tab")
    \/ Online
    \/ Offline
    \/ \E eventName \in CustomNames : LogCustomEvent(eventName, "cart", Body)
    \/ \E l \in PointerListeners : PointerListener(l, "e1")
    \/ \E l \in PageListeners : PageListener(l)

NextKinds ==
    \/ Sleep
    \/ StartupTimeoutStep
    \/ KindStep

SpecKinds == Init /\ [][NextKinds]_vars

(***************************************************************************)
(* The form fields: change signals of a password and of a text field,      *)
(* whatever they hold.                                                     *)
(***************************************************************************)
FormStep ==
    \E target \in Inputs, value \in Values : Change(target, value)

NextForms ==
    \/ Sleep
    \/ StartupTimeoutStep
    \/ FormStep

SpecForms == Init /\ [][NextForms]_vars

(***************************************************************************)
(* A user who types into a password field: the key signals of each key    *)
(* (key presses in a text field as well), the input signal of the edited   *)
(* field and the clipboard signals.                                        *)
(***************************************************************************)
TypingStep ==
    \/ \E target \in Inputs, key \in Keys : KeyDown(target, key)
    \/ \E key \in Keys : KeyUp(PasswordInput, key)
    \/ \E value \in {"hunter2", ""} : Input(PasswordInput, value)
    \/ \E l \in ClipboardListeners, selection \in {"hunter2", ""} :
          ClipboardListener(l, PasswordInput, selection)
    \/ Paste(PasswordInput)

NextTyping ==
    \/ Sleep
    \/ StartupTimeoutStep
    \/ TypingStep

SpecTyping == Init /\ [][NextTyping]_vars

(***************************************************************************)
(* A caller that reads getStats at any moment, between the signals of the  *)
(* idle machine and a key signal.                                          *)
(***************************************************************************)
NextStats ==
    \/ Sleep
    \/ StartupTimeoutStep
    \/ PointerStep
    \/ KeyDown(Body, "Tab")
    \/ GetStats

SpecStats == Init /\ [][NextStats]_vars

(***************************************************************************)
(* Scrolls to every geometry, each left to settle or overtaken by the      *)
(* next, with a key signal as a record of another kind.                    *)
(***************************************************************************)
NextSnapshot ==
    \/ Sleep
    \/ StartupTimeoutStep
    \/ \E g \in Geometries : Scroll(g)
    \/ ScrollTimeoutFires
    \/ KeyDown(Body, "Tab")

SpecSnapshot == Init /\ [][NextSnapshot]_vars

(***************************************************************************)
(* The rate-controlled sources together, with a click as the signal that   *)
(* is logged at once: scroll and resize signals (debounced), mouse moves   *)
(* (throttled) and clicks in any interleaving.                             *)
(***************************************************************************)
DebounceStep ==
    \/ Scroll(<<250, 1000, 500>>)
    \/ ScrollTimeoutFires
    \/ Resize(<<0, 1000, 500>>)
    \/ ResizeTimeoutFires

NextDebounce ==
    \/ Tick(100)
    \/ Sleep
    \/ StartupTimeoutStep
    \/ DebounceStep

SpecDebounce == Init /\ [][NextDebounce]_vars

NextRate ==
    \/ Tick(100)
    \/ Sleep
    \/ StartupTimeoutStep
    \/ DebounceStep
    \/ MouseMove("e1", 1)

SpecRate == Init /\ [][NextRate]_vars

(***************************************************************************)
(* The debounced sources with a click, a signal that is logged at once;    *)
(* the signals arrive when the script has run or when a timeout is due,    *)
(* before or after its callback.                                           *)
(***************************************************************************)
NextOrder ==
    \/ Sleep
    \/ StartupTimeoutStep
    \/ DebounceStep
    \/ Click("e1")

SpecOrder == Init /\ [][NextOrder]_vars

(***************************************************************************)
(* getScrollInfo on every small geometry: the page is in any geometry of   *)
(* ScrollRange and getStats reads the percentage.  A geometry is one a     *)
(* layout can have: the viewport's client height is innerHeight less the   *)
(* height bar of a horizontal scrollbar (0 without one), the content is at *)
(* least as high, and scrollTop lies in 0 .. scrollHeight - client height. *)
(* Denominators up to MaxLength make no quotient that floating point       *)
(* rounds differently from the integer arithmetic of MathRound.            *)
(***************************************************************************)
MaxLength == 10

MaxBar == 2

ScrollRange ==
    { g \in (0 .. MaxLength) \X (1 .. MaxLength) \X (1 .. MaxLength) :
        \E bar \in 0 .. MaxBar :
            /\ bar < g[3]
            /\ g[2] >= g[3] - bar
            /\ g[1] <= g[2] - (g[3] - bar) }
      \cup {<<250, 1000, 500>>}

InitScrollInfo ==
    /\ now = SessionStart
    /\ ticks = 0
    /\ State = InitState
    /\ sink = <<>>
    /\ idleTimer = {SessionStart + idleTimeout}
    /\ scrollTimeout = {}
    /\ resizeTimeout = {}
    /\ observeTimer = {SessionStart + observeDelay}
    /\ observing = {}
    /\ lastMouseLog = 0
    /\ geometry \in ScrollRange
    /\ loaded = FALSE
    /\ quiet = [since |-> SessionStart, emitted |-> 0]
    /\ moves = <<>>
    /\ intersections = [el \in Elements |-> 0]
    /\ stats = NoStats
    /\ signals = 0
    /\ arrivals = <<>>

SpecScrollInfo == InitScrollInfo /\ [][GetStats]_vars

(***************************************************************************)
(* The claims.                                                             *)
(***************************************************************************)
\* the positions of the records of the given kinds in the sink
RecordsOf(kinds) == {i \in 1 .. Len(sink) : sink[i].type_of_event \in kinds}

\* C1: the records handed to the sink carry the sequence numbers 1, 2, ..., N
\* in emission order, and event_count never changes without a record being
\* emitted (it counts the records emitted so far).
C1_SequenceNumbers ==
    /\ \A i \in 1 .. Len(sink) : sink[i].event_number = i
    /\ State.eventCount = Len(sink)

\* the user_idle and user_active records of the stream, in order
IdleActiveRecords ==
    SelectSeq(sink, LAMBDA r : r.type_of_event \in {"user_idle", "user_active"})

\* C2: user_idle and user_active records strictly alternate, starting with
\* user_idle.
C2_IdleActiveAlternate ==
    \A i \in 1 .. Len(IdleActiveRecords) :
        IdleActiveRecords[i].type_of_event =
            IF i % 2 = 1 THEN "user_idle" ELSE "user_active"

\* the idle timeout has fired and no qualifying signal has arrived since
\* (every qualifying signal arms the timeout again)
InIdlePeriod ==
    /\ idleTimer = {}
    /\ RecordsOf({"user_idle"}) # {}

\* the last user_idle record
LastUserIdle ==
    sink[CHOOSE i \in RecordsOf({"user_idle"}) :
            \A j \in RecordsOf({"user_idle"}) : j <= i]

\* C3: after a user_idle record, the next qualifying signal (here a click, a
\* mousedown, a keypress or a touchstart) emits exactly one user_active
\* record, whose idle_duration_ms is the time since the last activity before
\* the idle period.
C3_ActiveAfterIdle ==
    [][ (InIdlePeriod /\ PointerStep) =>
          \E i \in Len(sink) + 1 .. Len(sink') :
             /\ sink'[i].type_of_event = "user_active"
             /\ sink'[i].info.idle_duration_ms = now - LastUserIdle.info.last_activity
             /\ \A j \in Len(sink) + 1 .. Len(sink') :
                    sink'[j].type_of_event = "user_active" => j = i ]_vars

\* the user_idle records emitted since the last qualifying signal
IdleRecordsSinceSignal ==
    {i \in RecordsOf({"user_idle"}) : i > quiet.emitted}

\* C4: counted from the last qualifying signal (or from initialization), no
\* user_idle record is emitted before idleTimeout has elapsed, and a silence
\* longer than idleTimeout has produced exactly one user_idle record, however
\* long it lasts.
C4_OneIdlePerSilence ==
    /\ \A i \in IdleRecordsSinceSignal : sink[i].time >= quiet.since + idleTimeout
    /\ Cardinality(IdleRecordsSinceSignal) <= 1
    /\ now > quiet.since + idleTimeout => Cardinality(IdleRecordsSinceSignal) = 1

\* C4's case: the silence has lasted longer than idleTimeout, after an
\* earlier qualifying signal, and its user_idle record is there
C4_Witness ==
    /\ quiet.since > SessionStart
    /\ now > quiet.since + idleTimeout
    /\ Cardinality(IdleRecordsSinceSignal) = 1

\* the view records of the element el
ViewsOf(el) == {i \in RecordsOf({"view"}) : sink[i].element = el}

\* C5: each element is the target of at most one view record, and
\* observed_elements only grows.
C5_ViewOncePerElement ==
    /\ [](\A el \in Elements : Cardinality(ViewsOf(el)) <= 1)
    /\ [][State.observedElements \subseteq State'.observedElements]_vars

\* C5's case: an element has been reported as intersecting twice (its ratio
\* crossed the threshold again) and has its one view record
C5_Witness ==
    \E el \in Elements :
        /\ intersections[el] >= 2
        /\ Cardinality(ViewsOf(el)) = 1
        /\ el \in State.observedElements

\* C6: a view record is emitted, and its element marked as viewed, only on an
\* intersection update whose ratio is at least visibilityThreshold.
C6_ViewAtThreshold ==
    /\ \A i \in RecordsOf({"view"}) :
           sink[i].info.visibility_ratio >= visibilityThreshold
    /\ \A el \in State.observedElements :
           \E i \in ViewsOf(el) : sink[i].info.visibility_ratio >= visibilityThreshold

\* the scroll_percentage values of the scroll records emitted so far, and 0
ScrollPercentagesSeen ==
    {0} \cup {sink[i].info.scroll_percentage : i \in RecordsOf({"scroll"})}

\* C7: max_scroll_depth never decreases, is the maximum scroll_percentage of
\* the scroll records emitted so far (starting from 0) and stays in 0..100.
C7_MaxScrollDepth ==
    /\ [](/\ State.maxScrollDepth \in ScrollPercentagesSeen
          /\ \A p \in ScrollPercentagesSeen : p <= State.maxScrollDepth
          /\ State.maxScrollDepth \in 0 .. 100)
    /\ [][State'.maxScrollDepth >= State.maxScrollDepth]_vars

\* C8: the scroll percentage is round(scrollTop / (scrollHeight -
\* viewportHeight) * 100) when the denominator is positive (the integer p with
\* p - 1/2 <= 100 * scrollTop / den < p + 1/2; 50 for 250, 1000, 500), 0 for
\* every scrollTop when the denominator is zero or negative, and never NaN,
\* infinite or negative.
C8_ScrollPercentage ==
    stats # NoStats =>
        LET p   == stats.current_scroll
            den == geometry[2] - geometry[3]
        IN  /\ den > 0 => /\ (2 * p - 1) * den <= 200 * geometry[1]
                          /\ 200 * geometry[1] < (2 * p + 1) * den
            /\ den <= 0 => p = 0
            /\ geometry = <<250, 1000, 500>> => p = 50
            /\ p >= 0
            /\ p # Infinity

\* the last mouse_move record
LastMouseRecord ==
    sink[CHOOSE i \in RecordsOf({"mouse_move"}) :
            \A j \in RecordsOf({"mouse_move"}) : j <= i]

\* no mouse-move signal has passed the throttle without leaving its record:
\* lastMouseLog is the time of the last mouse_move record
ThrottleAtLastRecord ==
    IF RecordsOf({"mouse_move"}) = {} THEN moves = <<>>
    ELSE lastMouseLog = LastMouseRecord.time

\* C9: a mouse-move signal (here: to an element, in a run where every earlier
\* pass of the throttle left its record) produces a mouse_move record exactly
\* when at least mouseMoveThrottle ms have elapsed since the last mouse_move
\* record, a signal exactly mouseMoveThrottle ms later included; so no two
\* mouse_move records are less than mouseMoveThrottle ms apart.
C9_MouseMoveThrottle ==
    /\ [][ \A x \in Coords :
             (ThrottleAtLastRecord /\ MouseMove("e1", x)) =>
                ( ( /\ Len(sink') = Len(sink) + 1
                    /\ sink'[Len(sink')].type_of_event = "mouse_move" )
                  <=> ( \/ RecordsOf({"mouse_move"}) = {}
                        \/ now - LastMouseRecord.time >= mouseMoveThrottle ) ) ]_vars
    /\ [](\A i, j \in RecordsOf({"mouse_move"}) :
             i < j => sink[j].time - sink[i].time >= mouseMoveThrottle)

\* the last two mouse-move signals arrived 100 ms apart
PairApart ==
    /\ Len(moves) = 2
    /\ moves[2].time - moves[1].time = 100

\* the mouse_move records emitted since the first signal of the pair arrived
PairRecords == {i \in RecordsOf({"mouse_move"}) : i > moves[1].before}

\* C10 as claimed (for two signals to elements): with no mouse_move record in
\* the 500 ms before the first signal, exactly one mouse_move record is emitted
\* for the pair and it carries the coordinates of the second signal.
C10_SecondSignalLogged ==
    ( /\ PairApart
      /\ HasTagName(moves[1].target) /\ HasTagName(moves[2].target)
      /\ \A i \in RecordsOf({"mouse_move"}) :
             i <= moves[1].before => sink[i].time < moves[1].time - mouseMoveThrottle )
    => /\ Cardinality(PairRecords) = 1
       /\ \A i \in PairRecords : sink[i].info.coordinates = moves[2].x

\* C10 amended: when more than mouseMoveThrottle ms have passed since a
\* mouse-move signal last passed the throttle, the first signal of the pair is
\* logged and the second is dropped: the pair's only mouse_move record is the
\* first signal's, with the first signal's coordinates (and there is none if
\* the first signal's target has no tagName, where logEvent throws).
C10_FirstSignalLogged ==
    ( /\ PairApart
      /\ moves[1].time - moves[1].lastLog > mouseMoveThrottle )
    => /\ \A i \in PairRecords :
              /\ i <= moves[2].before
              /\ sink[i].time = moves[1].time
              /\ sink[i].info.coordinates = moves[1].x
       /\ Cardinality(PairRecords) = IF HasTagName(moves[1].target) THEN 1 ELSE 0

\* C10's case: two signals 100 ms apart with different coordinates, the first
\* one logged
C10_Witness ==
    /\ PairApart
    /\ moves[1].time - moves[1].lastLog > mouseMoveThrottle
    /\ moves[1].x # moves[2].x
    /\ Cardinality(PairRecords) = 1

\* the positions of the signals of the given kind in the arrivals
ArrivalsOf(kind) == {i \in 1 .. Len(arrivals) : arrivals[i].kind = kind}

\* the delay of the debounce of scroll (line 383) and resize (line 464)
DelayOf(kind) == IF kind = "scroll" THEN scrollThrottle ELSE resizeThrottle

\* the next signal of the same kind after the signal i, 0 when i is the last
NextOfKind(i) ==
    LET later == {j \in i + 1 .. Len(arrivals) : arrivals[j].kind = arrivals[i].kind}
    IN  IF later = {} THEN 0
        ELSE CHOOSE j \in later : \A k \in later : j <= k

\* the records of the given kind among the records lo + 1 .. hi
RecordsBetween(kind, lo, hi) ==
    {r \in lo + 1 .. hi : sink[r].type_of_event = kind}

\* the state a scroll or resize record carries, read from the geometry g
DebouncedState(kind, g) ==
    IF kind = "scroll" THEN getScrollInfo(g) ELSE [viewport_height |-> g[3]]

\* no scroll or resize signal has arrived since the record r was emitted
GeometrySince(r) ==
    \A j \in 1 .. Len(arrivals) :
        arrivals[j].kind \in {"scroll", "resize"} => arrivals[j].before < r

\* C11: for scroll and resize alike, a signal followed by another of its kind
\* less than the delay later produces no record; the last signal of a burst
\* produces no record before the delay has passed and exactly one once it
\* has, emitted when the delay expires; and the record carries the state read
\* at its emission (the state the page is in as long as no scroll or resize
\* signal has arrived since).
C11_DebounceBurst ==
    \A i \in 1 .. Len(arrivals) :
        arrivals[i].kind \in {"scroll", "resize"} =>
            LET kind    == arrivals[i].kind
                expiry  == arrivals[i].time + DelayOf(kind)
                next    == NextOfKind(i)
                until   == IF next = 0 THEN now ELSE arrivals[next].time
                records == RecordsBetween(kind, arrivals[i].after,
                               IF next = 0 THEN Len(sink) ELSE arrivals[next].before)
            IN  /\ until < expiry => records = {}
                /\ until > expiry => Cardinality(records) = 1
                /\ \A r \in records :
                       /\ sink[r].time = expiry
                       /\ GeometrySince(r) =>
                              sink[r].info = DebouncedState(kind, geometry)

\* C11's case: a burst of two scroll signals less than scrollThrottle apart,
\* a resize changing the page before the delay has passed, and the burst's one
\* record, which carries the state after the resize
C11_Witness ==
    \E i \in ArrivalsOf("scroll") :
        /\ NextOfKind(i) # 0
        /\ arrivals[NextOfKind(i)].time - arrivals[i].time < scrollThrottle
        /\ arrivals[NextOfKind(i)].time > arrivals[i].time
        /\ NextOfKind(NextOfKind(i)) = 0
        /\ Cardinality(RecordsOf({"scroll"})) = 1
        /\ \E j \in ArrivalsOf("resize") : j > NextOfKind(i)
        /\ \A r \in RecordsOf({"scroll"}) :
               /\ GeometrySince(r)
               /\ sink[r].info.scroll_percentage = 0

\* the kinds of signal that run resetIdleTimer, line 591
Qualifying == {"mousedown", "mousemove", "keypress", "scroll", "touchstart", "click"}

\* C12: a signal of one kind leaves the pending timeout of the scroll
\* debounce, that of the resize debounce and the mouse-move throttle window
\* of every other kind as they are (not cancelled, restarted or delayed), and
\* a signal that is not a qualifying one leaves the idle timer as it is.
C12_TimersPerSource ==
    [][ Len(arrivals') > Len(arrivals) =>
          LET kind == arrivals'[Len(arrivals')].kind
          IN  /\ kind # "scroll" => scrollTimeout' = scrollTimeout
              /\ kind # "resize" => resizeTimeout' = resizeTimeout
              /\ kind # "mousemove" => lastMouseLog' = lastMouseLog
              /\ kind \notin Qualifying => idleTimer' = idleTimer ]_vars

\* C12's case: a scroll, a resize and a mouse-move signal have arrived one
\* after the other within the delays, and each timeout is still due at the
\* time its own signal set
C12_Witness ==
    /\ Len(arrivals) >= 3
    /\ LET n == Len(arrivals)
       IN  /\ arrivals[n - 2].kind = "scroll"
           /\ arrivals[n - 1].kind = "resize"
           /\ arrivals[n].kind = "mousemove"
           /\ arrivals[n - 2].time < arrivals[n - 1].time
           /\ arrivals[n - 1].time < arrivals[n].time
           /\ scrollTimeout = {arrivals[n - 2].time + scrollThrottle}
           /\ resizeTimeout = {arrivals[n - 1].time + resizeThrottle}
           /\ lastMouseLog = arrivals[n].time
           /\ idleTimer = {arrivals[n].time + idleTimeout}

\* the last qualifying signal, 0 when there has been none
LastQualifying ==
    LET q == {i \in 1 .. Len(arrivals) : arrivals[i].kind \in Qualifying}
    IN  IF q = {} THEN 0 ELSE CHOOSE i \in q : \A j \in q : j <= i

\* C13: the inactivity timer runs from the arrival of the last qualifying
\* signal, whether or not the throttle dropped the signal or the debounce
\* still holds its record back: until idleTimeout ms after that arrival the
\* timer is pending and due exactly then, and it is never due at another time.
C13_IdleResetDespiteRateControl ==
    LastQualifying # 0 =>
        LET due == arrivals[LastQualifying].time + idleTimeout
        IN  /\ idleTimer \subseteq {due}
            /\ now < due => idleTimer = {due}

\* C13's case: a mouse-move signal that was logged, a scroll signal whose
\* record the debounce still holds back, then a mouse-move signal that the
\* throttle dropped, and the idle timer due idleTimeout ms after the last
C13_Witness ==
    /\ Len(arrivals) >= 3
    /\ LET n == Len(arrivals)
       IN  /\ arrivals[n - 2].kind = "mousemove"
           /\ arrivals[n - 2].after = arrivals[n - 2].before + 1
           /\ arrivals[n - 1].kind = "scroll"
           /\ arrivals[n - 1].time > arrivals[n - 2].time
           /\ arrivals[n].kind = "mousemove"
           /\ arrivals[n].time > arrivals[n - 1].time
           /\ arrivals[n].after = arrivals[n].before
           /\ scrollTimeout # {}
           /\ RecordsOf({"scroll"}) = {}
           /\ idleTimer = {arrivals[n].time + idleTimeout}

\* the signal i is a scroll or a resize signal, logged by a timeout
Debounced(i) == arrivals[i].kind \in {"scroll", "resize"}

\* the records the signal i caused: those its listeners emitted, and for a
\* scroll or resize signal the record of its kind emitted before the next
\* signal of its kind arrived
CausedBy(i) ==
    IF Debounced(i)
    THEN RecordsBetween(arrivals[i].kind, arrivals[i].before,
             IF NextOfKind(i) = 0 THEN Len(sink) ELSE arrivals[NextOfKind(i)].before)
    ELSE arrivals[i].before + 1 .. arrivals[i].after

\* C14 as claimed: if the signal i arrives before the signal j and both
\* produce a record, the record of i has the smaller sequence number, for
\* every pair of kinds, scroll and resize included.
C14_ArrivalOrder ==
    LET caused == [i \in 1 .. Len(arrivals) |-> CausedBy(i)]
    IN  \A i, j \in 1 .. Len(arrivals) :
            i < j => \A r \in caused[i], q \in caused[j] :
                        sink[r].event_number < sink[q].event_number

\* when the record of the signal i is due: at once, or when the delay has
\* passed for a scroll or resize signal
EmittedAt(i) ==
    IF Debounced(i) THEN arrivals[i].time + DelayOf(arrivals[i].kind)
                    ELSE arrivals[i].time

\* C14 amended: records carry increasing sequence numbers in the order of
\* their emission.  The record of a signal that is logged at once precedes
\* the record of every signal that arrives later; a scroll or resize record
\* is emitted no earlier than its delay after the signal, so it follows the
\* record of every signal that arrived and was logged before the delay had
\* passed, also of one that arrived after the scroll or resize signal.
C14_EmissionOrder ==
    /\ \A r \in 1 .. Len(sink) - 1 :
           /\ sink[r].event_number < sink[r + 1].event_number
           /\ sink[r].time <= sink[r + 1].time
    /\ LET caused == [i \in 1 .. Len(arrivals) |-> CausedBy(i)]
       IN  \A i \in 1 .. Len(arrivals) : \A r \in caused[i] :
              /\ sink[r].time >= EmittedAt(i)
              /\ \A j \in 1 .. Len(arrivals) : \A q \in caused[j] :
                     /\ (i < j /\ ~Debounced(i)) =>
                            sink[r].event_number < sink[q].event_number
                     /\ ( /\ Debounced(i) /\ ~Debounced(j)
                          /\ arrivals[j].time < EmittedAt(i) ) =>
                            sink[q].event_number < sink[r].event_number

\* C14's case: a resize signal, then a click that arrives and is logged
\* before the delay of the resize has passed, then the resize record
C14_Witness ==
    \E i, j \in 1 .. Len(arrivals) :
        /\ i < j
        /\ arrivals[i].kind = "resize"
        /\ arrivals[j].kind = "click"
        /\ arrivals[i].time < arrivals[j].time
        /\ arrivals[j].time < EmittedAt(i)
        /\ \E r \in CausedBy(i), q \in CausedBy(j) : q < r

\* C15: every emission, of whatever kind (user_idle, a custom event and the
\* kinds that do not reset the idle timer included), leaves last_activity at
\* the emission time and is_idle false.
C15_EmissionMarksActivity ==
    [][ Len(sink') > Len(sink) =>
          /\ State'.lastActivity = sink'[Len(sink')].time
          /\ State'.lastActivity = now
          /\ ~State'.isIdle ]_vars

\* C15's case: a custom event and a keydown (neither resets the idle timer)
\* have been logged, then the idle timeout has emitted user_idle, and is_idle
\* is false with last_activity at that emission
C15_Witness ==
    /\ Len(sink) >= 3
    /\ sink[Len(sink)].type_of_event = "user_idle"
    /\ \E i, j \in 1 .. Len(sink) - 1 :
           /\ sink[i].type_of_event = "keyboard"
           /\ sink[j].event_object = "custom"
    /\ State.lastActivity = sink[Len(sink)].time
    /\ ~State.isIdle

\* C16: is_idle is written by the idle/active state machine only, so its value
\* is the machine's state: true from the expiry of the inactivity timer until
\* the next qualifying signal (which arms the timer again), false otherwise,
\* whatever other signals are logged in between.
C16_IdleOnlyByMachine == State.isIdle <=> InIdlePeriod

\* the event kinds of the data model (section 3 of the specification)
Taxonomy ==
    { "click", "double_click", "right_click", "change", "input", "focus", "blur",
      "submit", "keyboard_down", "keyboard_up", "scroll", "mouse_move",
      "mouse_enter", "mouse_leave", "copy", "cut", "paste", "resize",
      "visibility_change", "connection_online", "connection_offline",
      "page_exit", "media_play", "media_pause", "media_ended", "text_selection",
      "drag_start", "drag_end", "drop", "view", "user_idle", "user_active",
      "page_view", "custom" }

\* the kind the data model gives the record of a signal
TaxonomyKind(signal) ==
    CASE signal = "keydown" -> "keyboard_down"
      [] signal = "keyup" -> "keyboard_up"
      [] signal = "online" -> "connection_online"
      [] signal = "offline" -> "connection_offline"
      [] signal = "logCustomEvent" -> "custom"

\* the signals of the key, connectivity and injection sources
KindSignals == {"keydown", "keyup", "online", "offline", "logCustomEvent"}

\* C17 as claimed: every record's kind belongs to the taxonomy of the data
\* model: keyboard_down and keyboard_up for key signals, connection_online
\* and connection_offline for connectivity signals, custom for the records
\* injected through logCustomEvent.
C17_ClosedTaxonomy ==
    /\ \A r \in 1 .. Len(sink) : sink[r].type_of_event \in Taxonomy
    /\ \A i \in 1 .. Len(arrivals) :
           arrivals[i].kind \in KindSignals =>
              \A r \in arrivals[i].before + 1 .. arrivals[i].after :
                 sink[r].type_of_event = TaxonomyKind(arrivals[i].kind)

\* the event types the listeners and timeouts of the program pass to logEvent
CodeKinds ==
    { "page_view", "click", "double_click", "right_click", "change", "input",
      "focus", "blur", "submit", "keyboard", "scroll", "mouse_move",
      "mouse_enter", "mouse_leave", "copy", "cut", "paste", "resize",
      "visibility_change", "connection", "page_exit", "media_play",
      "media_pause", "media_ended", "text_selection", "drag_start", "drag_end",
      "drop", "view", "user_active", "user_idle" }

\* the type and the subject the code gives the record of a signal
CodeKind(signal) ==
    CASE signal = "keydown" -> <<"keyboard", "keydown">>
      [] signal = "keyup" -> <<"keyboard", "keyup">>
      [] signal = "online" -> <<"connection", "online">>
      [] signal = "offline" -> <<"connection", "offline">>

\* C17 amended: the kind of every record a listener or timeout emits is one
\* of the event types of the code: key signals are logged with the kind
\* keyboard and the subject keydown or keyup, connectivity signals with the
\* kind connection and the subject online or offline; a record injected
\* through logCustomEvent carries the name its caller passed as its kind,
\* whether or not any list contains it.
C17_CodeKinds ==
    \A i \in 1 .. Len(arrivals) :
        \A r \in arrivals[i].before + 1 .. arrivals[i].after :
           /\ arrivals[i].kind = "logCustomEvent" =>
                  sink[r].type_of_event = arrivals[i].detail
           /\ arrivals[i].kind # "logCustomEvent" =>
                  sink[r].type_of_event \in CodeKinds
           /\ arrivals[i].kind \in KindSignals \ {"logCustomEvent"} =>
                  <<sink[r].type_of_event, sink[r].event_object>>
                      = CodeKind(arrivals[i].kind)

\* C17's case: a key signal, a connectivity signal and an injected event with
\* a name of the caller's have been logged
C17_Witness ==
    \E i, j, k \in 1 .. Len(arrivals) :
        /\ arrivals[i].kind = "keyup"
        /\ arrivals[j].kind = "offline"
        /\ arrivals[k].kind = "logCustomEvent"
        /\ arrivals[k].detail = "purchase"
        /\ arrivals[i].after > arrivals[i].before
        /\ arrivals[j].after > arrivals[j].before
        /\ sink[arrivals[k].after].type_of_event = "purchase"

\* the fixed text the spec calls the redaction mask
Mask == "***"

\* C18: every change signal of a password field emits a record whose payload
\* value is the mask, whatever the field holds, and so never the field's text
\* (unless the text is the mask itself); the payload is the same for any two
\* contents of the field.
C18_PasswordMasked ==
    \A i \in 1 .. Len(arrivals) :
        arrivals[i].kind = "change" =>
            /\ arrivals[i].after = arrivals[i].before + 1
            /\ LET r == sink[arrivals[i].after]
               IN  r.element = PasswordInput =>
                      /\ r.type_of_event = "change"
                      /\ r.info.value = Mask
                      /\ arrivals[i].detail # Mask => r.info.value # arrivals[i].detail
                      /\ \A j \in 1 .. Len(arrivals) :
                             ( /\ arrivals[j].kind = "change"
                               /\ sink[arrivals[j].after].element = PasswordInput )
                             => sink[arrivals[j].after].info = r.info

\* C18's case: the password field has changed twice with different texts,
\* hunter2 among them, a text field has changed too and its text was logged
C18_Witness ==
    \E i, j, k \in 1 .. Len(arrivals) :
        /\ arrivals[i].kind = "change" /\ arrivals[j].kind = "change"
        /\ arrivals[k].kind = "change"
        /\ sink[arrivals[i].after].element = PasswordInput
        /\ sink[arrivals[j].after].element = PasswordInput
        /\ sink[arrivals[k].after].element = TextInput
        /\ arrivals[i].detail = "hunter2"
        /\ arrivals[j].detail = ""
        /\ arrivals[k].detail = "hunter2"
        /\ sink[arrivals[k].after].info.value = "hunter2"

\* the signals whose listener logs every signal it gets, whatever the target
LoggedSignals == {"load", "click", "keydown", "dragstart", "logCustomEvent"}

\* C19: every tracked signal results in a record, also when its origin node
\* is absent or has no tag name (a text node, the document); the record of
\* such a node has the classifier field "unknown", and the signals after it
\* are logged as usual.
C19_MalformedNodeRecord ==
    /\ \A i \in 1 .. Len(arrivals) :
           arrivals[i].kind \in LoggedSignals => arrivals[i].after > arrivals[i].before
    /\ \A r \in 1 .. Len(sink) :
           (sink[r].element # Null /\ ~HasTagName(sink[r].element)) =>
               sink[r].event_object = "unknown"

\* the largest of the scroll percentages of the scroll records up to the
\* record r, and 0
MaxScrollUpTo(r) ==
    LET seen == {0} \cup {sink[q].info.scroll_percentage :
                              q \in {q \in RecordsOf({"scroll"}) : q <= r}}
    IN  CHOOSE p \in seen : \A q \in seen : q <= p

\* C20: in every scroll record the snapshot's max_scroll_depth is at least
\* the record's own scroll_percentage and is the session's max_scroll_depth
\* after that scroll (the largest percentage up to and including the
\* record's, which the session keeps until the next scroll record); and in
\* every record of any kind the snapshot's total_events is the record's
\* sequence number.
C20_ScrollSnapshot ==
    /\ \A r \in 1 .. Len(sink) :
           sink[r].session_info.total_events = sink[r].event_number
    /\ \A r \in RecordsOf({"scroll"}) :
           /\ sink[r].session_info.max_scroll_depth >= sink[r].info.scroll_percentage
           /\ sink[r].session_info.max_scroll_depth = MaxScrollUpTo(r)
           /\ (\A q \in RecordsOf({"scroll"}) : q <= r) =>
                  sink[r].session_info.max_scroll_depth = State.maxScrollDepth

\* C20's case: a scroll record that raised the maximum and carries the new
\* maximum, then a record of another kind, then a scroll record with a
\* smaller percentage that carries the maximum too
C20_Witness ==
    \E r, k, q \in 1 .. Len(sink) :
        /\ r < k /\ k < q
        /\ sink[r].type_of_event = "scroll"
        /\ sink[k].type_of_event = "keyboard"
        /\ sink[q].type_of_event = "scroll"
        /\ sink[r].info.scroll_percentage = 50
        /\ sink[r].session_info.max_scroll_depth = 50
        /\ sink[q].info.scroll_percentage = 0
        /\ sink[q].session_info.max_scroll_depth = 50
        /\ sink[q].session_info.total_events = 3

(***************************************************************************)
(* C21.  Whenever a user_idle record is emitted, at least idleTimeout ms   *)
(* have passed since the last_activity it reports: an emission of a kind   *)
(* that does not reset the idle timer, shortly before the timer expires,   *)
(* does not lead to a user_idle record whose last_activity is more recent  *)
(* than idleTimeout ago.                                                   *)
(***************************************************************************)
C21_IdleAfterTimeout ==
    \A r \in RecordsOf({"user_idle"}) :
        sink[r].time - sink[r].info.last_activity >= idleTimeout

(***************************************************************************)
(* C22.  In every state between two callbacks is_idle is false, and so is  *)
(* the is_idle of every snapshot getStats returns, also after a user_idle  *)
(* record and before any further signal.                                   *)
(***************************************************************************)
C22_NeverIdleBetweenCallbacks ==
    /\ ~State.isIdle
    /\ "is_idle" \in DOMAIN stats => ~stats.is_idle

\* the last record is a user_idle, every signal arrived before it, and
\* getStats has been called since
C22_Witness ==
    /\ Len(sink) > 0
    /\ sink[Len(sink)].type_of_event = "user_idle"
    /\ \A i \in 1 .. Len(arrivals) : arrivals[i].before < Len(sink)
    /\ "is_idle" \in DOMAIN stats
    /\ stats.total_events = State.eventCount
    /\ ~stats.is_idle

(***************************************************************************)
(* C23.  No record emitted for a signal whose target is a password field   *)
(* carries text typed into the field: the records of keydown, keyup,       *)
(* input, copy, cut and paste hold no character of the field's content,    *)
(* in particular no pressed key, and a change record holds the mask.       *)
(***************************************************************************)
\* the characters a user can type into a field of the model
Characters == UNION { {Chars(v)[i] : i \in 1 .. Len(Chars(v))} : v \in Values }

\* the record holds no typed character
NoTypedText(r) ==
    /\ "key" \in DOMAIN r.info => r.info.key \notin Characters
    /\ "text_preview" \in DOMAIN r.info => r.info.text_preview = <<>>
    /\ "value" \in DOMAIN r.info => r.info.value = Mask

C23_NoTypedText ==
    \A r \in 1 .. Len(sink) :
        sink[r].element = PasswordInput => NoTypedText(sink[r])

====
